---- MODULE Spec2Model ----
(***************************************************************************)
(* Telephasma frontend: the zustand store (frontend/src/store/useStore.ts) *)
(* that merges scan events into graphData and re-projects parsedUsers, and *)
(* the Scanner component (frontend/src/components/Scanner.tsx) that feeds  *)
(* queued scan targets through it over one WebSocket at a time.            *)
(*                                                                         *)
(* JavaScript values are strings here.  Undefined and Null stand for the   *)
(* values undefined and null; their template-literal conversions are the   *)
(* strings "undefined" and "null", so `u_${id}` is plain concatenation.    *)
(* Booleans stored in optional fields are "true" / "false".                *)
(*                                                                         *)
(* The Scanner is rendered only while activeTab = 'scanner'                *)
(* (Discovery.tsx:497).  Its wsRef belongs to the mounted instance; the    *)
(* sockets and timers of an instance that was unmounted live on, with      *)
(* handlers that still write to the store.  The tabs 'results' and         *)
(* 'network' act on the Scanner as 'discovery' does and are not modelled.  *)
(* A closed WebSocket takes no further part once the timer set by its      *)
(* onclose has run (close() on it does nothing), so sockets holds those    *)
(* that are open, closing, or closed with that timer pending.              *)
(*                                                                         *)
(* Not modelled: the logs array, GraphNode.val and GraphLink.label (the    *)
(* latter two are functions of fields that are modelled).                  *)
(***************************************************************************)
EXTENDS Naturals, Sequences, FiniteSets, TLC

VARIABLES
    nodes,                  \* graphData.nodes, in Map insertion order
    links,                  \* graphData.links, in Map insertion order
    parsedUsers,            \* the projected per-account records
    isScanning,
    scanQueue,
    scanTargetChatId,
    activeTab,
    networkNodePositions,   \* the stored position of a node, by node id
    layoutOp,               \* history: the latest updateNodePosition / clearNodePositions call
    sockets,                \* the WebSockets that are not closed or whose
                            \* onclose timer is pending, by slot
    wsRef,                  \* the mounted Scanner's wsRef.current: a slot, 0 for null or closed
    nodesB,                 \* graphData.nodes of a second, independent store
    linksB,                 \* graphData.links of the second store
    parsedUsersB,           \* parsedUsers of the second store
    applied,                \* history: number of processScanUpdate calls
    last,                   \* history: the update of the latest call
    repeated,               \* history: the latest update equals the one before
    giftsSeen,              \* history: gift entries applied per <<sender, recipient>>
    linksSeen,              \* history: <<uid, handle>> pairs of applied channel links
    seenNoVia,              \* history: uids observed without discovered_from
    from,                   \* history: the socket that delivered the latest update, 0 for none
    stopHist,               \* history: "never", "stopped", "settled" or "restarted"
    started                 \* history: the targets started since scanQueue was last enqueued

vars == <<nodes, links, parsedUsers, isScanning, scanQueue, scanTargetChatId,
          activeTab, networkNodePositions, layoutOp, sockets, wsRef,
          nodesB, linksB, parsedUsersB,
          applied, last, repeated, giftsSeen, linksSeen, seenNoVia, from, stopHist,
          started>>

store == <<nodes, links, parsedUsers>>
storeB == <<nodesB, linksB, parsedUsersB>>
ctl == <<isScanning, scanQueue, scanTargetChatId, activeTab, sockets, wsRef>>
hist == <<applied, last, repeated, giftsSeen, linksSeen, seenNoVia, from>>
layout == <<networkNodePositions, layoutOp>>

----------------------------------------------------------------------------
(* Bounds *)

MaxEvents == 3
MaxSockets == 2
MaxStreamEvents == 1
MaxPairEvents == 5

----------------------------------------------------------------------------
(* JavaScript values *)

Undefined == "undefined"
Null == "null"
JsTrue == "true"
JsFalse == "false"

Truthy(v) == v \notin {Undefined, Null, "", JsFalse}

StartsWith(s, p) == Len(s) >= Len(p) /\ SubSeq(s, 1, Len(p)) = p

NoEvent == [type |-> "none"]

----------------------------------------------------------------------------
(* Map helpers: nodeMap is keyed by node id, linkMap by `${s}-${t}`;       *)
(* set() on an existing key keeps its position, on a new key appends.      *)

NodeKey(n) == n.id
LinkKey(l) == l.source \o "-" \o l.target

HasNode(ns, id) == \E i \in 1..Len(ns) : NodeKey(ns[i]) = id
NodeIndex(ns, id) == CHOOSE i \in 1..Len(ns) : NodeKey(ns[i]) = id
GetNode(ns, id) == ns[NodeIndex(ns, id)]
SetNode(ns, n) ==
    IF HasNode(ns, n.id) THEN [ns EXCEPT ![NodeIndex(ns, n.id)] = n]
    ELSE Append(ns, n)

HasLink(ls, key) == \E i \in 1..Len(ls) : LinkKey(ls[i]) = key
LinkIndex(ls, key) == CHOOSE i \in 1..Len(ls) : LinkKey(ls[i]) = key
GetLink(ls, key) == ls[LinkIndex(ls, key)]
SetLink(ls, l) ==
    IF HasLink(ls, LinkKey(l)) THEN [ls EXCEPT ![LinkIndex(ls, LinkKey(l))] = l]
    ELSE Append(ls, l)

----------------------------------------------------------------------------
(* processScanUpdate: user_found / user_detail *)

UserLabel(data) ==
    IF Truthy(data.username) THEN "@" \o data.username
    ELSE IF Truthy(data.first_name) THEN data.first_name
    ELSE "U_" \o data.id

\* faulty variant: a later event's discovered_from (or its absence) overwrites the field
MergeNode_OverwriteVia(node, data) ==
    [node EXCEPT
        !.label = IF Truthy(data.username) THEN UserLabel(data) ELSE @,
        !.group = IF Truthy(data.type) THEN data.type ELSE @,
        !.title = IF Truthy(data.bio) THEN data.bio ELSE @,
        !.isTarget = IF ~Truthy(@) /\ ~Truthy(data.discovered_from)
                     THEN JsTrue ELSE @,
        !.discoveredFrom = IF Truthy(data.discovered_from)
                           THEN data.discovered_from ELSE Null]

\* faulty variant: an event that carries discovered_from overwrites the field
MergeNode_LastVia(node, data) ==
    [node EXCEPT
        !.label = IF Truthy(data.username) THEN UserLabel(data) ELSE @,
        !.group = IF Truthy(data.type) THEN data.type ELSE @,
        !.title = IF Truthy(data.bio) THEN data.bio ELSE @,
        !.isTarget = IF ~Truthy(@) /\ ~Truthy(data.discovered_from)
                     THEN JsTrue ELSE @,
        !.discoveredFrom = IF Truthy(data.discovered_from)
                           THEN data.discovered_from ELSE @]

\* faulty variant: the bio is taken from every event, empty when it has none
MergeNode_OverwriteBio(node, data) ==
    [node EXCEPT
        !.label = IF Truthy(data.username) THEN UserLabel(data) ELSE @,
        !.group = IF Truthy(data.type) THEN data.type ELSE @,
        !.title = IF Truthy(data.bio) THEN data.bio ELSE "",
        !.isTarget = IF ~Truthy(@) /\ ~Truthy(data.discovered_from)
                     THEN JsTrue ELSE @,
        !.discoveredFrom = IF Truthy(data.discovered_from) /\ ~Truthy(@)
                           THEN data.discovered_from ELSE @]

MergeNode(node, data) ==
    [node EXCEPT
        !.label = IF Truthy(data.username) THEN UserLabel(data) ELSE @,
        !.group = IF Truthy(data.type) THEN data.type ELSE @,
        !.title = IF Truthy(data.bio) THEN data.bio ELSE @,
        !.isTarget = IF ~Truthy(@) /\ ~Truthy(data.discovered_from)
                     THEN JsTrue ELSE @,
        !.discoveredFrom = IF Truthy(data.discovered_from) /\ ~Truthy(@)
                           THEN data.discovered_from ELSE @]

\* faulty variant: the node is created without its isTarget flag
NewNode_NoTargetFlag(data) ==
    [id |-> "u_" \o data.id,
     label |-> UserLabel(data),
     group |-> IF Truthy(data.type) THEN data.type ELSE "member",
     title |-> IF Truthy(data.bio) THEN data.bio ELSE "",
     isTarget |-> Undefined,
     discoveredFrom |-> IF Truthy(data.discovered_from)
                        THEN data.discovered_from ELSE Null]

NewNode(data) ==
    [id |-> "u_" \o data.id,
     label |-> UserLabel(data),
     group |-> IF Truthy(data.type) THEN data.type ELSE "member",
     title |-> IF Truthy(data.bio) THEN data.bio ELSE "",
     isTarget |-> IF Truthy(data.discovered_from) THEN JsFalse ELSE JsTrue,
     discoveredFrom |-> IF Truthy(data.discovered_from)
                        THEN data.discovered_from ELSE Null]

\* faulty variant: the channel's id is the account prefix and the handle
ChannelNode_AccountId(clink) ==
    [id |-> "u_" \o clink, label |-> "@" \o clink, group |-> "channel",
     title |-> Undefined, isTarget |-> Undefined, discoveredFrom |-> Undefined]

ChannelNode(clink) ==
    [id |-> "c_" \o clink, label |-> "@" \o clink, group |-> "channel",
     title |-> Undefined, isTarget |-> Undefined, discoveredFrom |-> Undefined]

\* faulty variant: the membership edge is pushed without the linkMap.has check
AddChannelLink_NoCheck(g, uid, clink) ==
    LET cid == "c_" \o clink
        ns == IF HasNode(g.nodes, cid) THEN g.nodes
              ELSE SetNode(g.nodes, ChannelNode(clink))
    IN  [nodes |-> ns,
         links |-> Append(g.links, [source |-> uid, target |-> cid, value |-> 1])]

AddChannelLink(g, uid, clink) ==
    LET cid == "c_" \o clink
        ns == IF HasNode(g.nodes, cid) THEN g.nodes
              ELSE SetNode(g.nodes, ChannelNode(clink))
        lnk == [source |-> uid, target |-> cid, value |-> 1]
        ls == IF HasLink(g.links, LinkKey(lnk)) THEN g.links
              ELSE SetLink(g.links, lnk)
    IN  [nodes |-> ns, links |-> ls]

\* faulty variant: the event's list replaces the account's membership edges
AddChannelLinks_Replace(g, uid, clinks) ==
    LET kept == SelectSeq(g.links,
                    LAMBDA l : ~(l.source = uid /\ StartsWith(l.target, "c_")))
        RECURSIVE Add(_, _)
        Add(h, cs) == IF cs = <<>> THEN h
                      ELSE Add(AddChannelLink(h, uid, Head(cs)), Tail(cs))
    IN  Add([nodes |-> g.nodes, links |-> kept], clinks)

RECURSIVE AddChannelLinks(_, _, _)
AddChannelLinks(g, uid, clinks) ==
    IF clinks = <<>> THEN g
    ELSE AddChannelLinks(AddChannelLink(g, uid, Head(clinks)), uid, Tail(clinks))

ApplyUser(g, type, data) ==
    LET uid == "u_" \o data.id
        ns == IF HasNode(g.nodes, uid)
              THEN SetNode(g.nodes, MergeNode(GetNode(g.nodes, uid), data))
              ELSE SetNode(g.nodes, NewNode(data))
        g1 == [nodes |-> ns, links |-> g.links]
    IN  IF type = "user_detail" /\ data.channel_links # <<>>
        THEN AddChannelLinks(g1, uid, data.channel_links)
        ELSE g1

----------------------------------------------------------------------------
(* processScanUpdate: user_gifts *)

NotResolved == [resolved |-> FALSE]

ResolvedLabel(resolvedSender, fallback) ==
    IF resolvedSender = NotResolved THEN fallback
    ELSE IF Truthy(resolvedSender.username) THEN "@" \o resolvedSender.username
    ELSE IF Truthy(resolvedSender.first_name) THEN resolvedSender.first_name
    ELSE fallback

SenderNode(srcId, senderLabel) ==
    [id |-> srcId, label |-> senderLabel, group |-> "potential_gifter",
     title |-> Undefined, isTarget |-> Undefined, discoveredFrom |-> Undefined]

\* faulty variant: a resolved sender relabels the node whatever its label is
UpsertSender_AlwaysRelabel(ns, sender_id, resolved_users) ==
    LET srcId == "u_" \o sender_id
        resolvedSender == resolved_users[sender_id]
    IN  IF ~HasNode(ns, srcId)
        THEN SetNode(ns, SenderNode(srcId,
                 ResolvedLabel(resolvedSender, "U_" \o sender_id)))
        ELSE LET existingNode == GetNode(ns, srcId)
             IN  IF resolvedSender # NotResolved
                 THEN SetNode(ns, [existingNode EXCEPT
                          !.label = ResolvedLabel(resolvedSender, @)])
                 ELSE ns

UpsertSender(ns, sender_id, resolved_users) ==
    LET srcId == "u_" \o sender_id
        resolvedSender == resolved_users[sender_id]
    IN  IF ~HasNode(ns, srcId)
        THEN SetNode(ns, SenderNode(srcId,
                 ResolvedLabel(resolvedSender, "U_" \o sender_id)))
        ELSE LET existingNode == GetNode(ns, srcId)
             IN  IF resolvedSender # NotResolved
                    /\ StartsWith(existingNode.label, "U_")
                 THEN SetNode(ns, [existingNode EXCEPT
                          !.label = ResolvedLabel(resolvedSender, @)])
                 ELSE ns

\* faulty variant: an existing edge is replaced instead of incremented
UpsertGiftLink_NoAccumulate(ls, srcId, targetId) ==
    SetLink(ls, [source |-> srcId, target |-> targetId, value |-> 1])

UpsertGiftLink(ls, srcId, targetId) ==
    LET lkey == srcId \o "-" \o targetId
    IN  IF HasLink(ls, lkey)
        THEN SetLink(ls, [GetLink(ls, lkey) EXCEPT !.value = @ + 1])
        ELSE SetLink(ls, [source |-> srcId, target |-> targetId, value |-> 1])

\* faulty variant: an entry without sender_id is applied like any other
ApplyGift_NoSenderCheck(g, targetId, gift, resolved_users) ==
    [nodes |-> IF ~Truthy(gift.sender_id)
               THEN SetNode(g.nodes, SenderNode("u_" \o gift.sender_id,
                                                "U_" \o gift.sender_id))
               ELSE UpsertSender(g.nodes, gift.sender_id, resolved_users),
     links |-> UpsertGiftLink(g.links, "u_" \o gift.sender_id, targetId)]

ApplyGift(g, targetId, gift, resolved_users) ==
    IF ~Truthy(gift.sender_id) THEN g
    ELSE [nodes |-> UpsertSender(g.nodes, gift.sender_id, resolved_users),
          links |-> UpsertGiftLink(g.links, "u_" \o gift.sender_id, targetId)]

RECURSIVE ApplyGifts(_, _, _, _)
ApplyGifts(g, targetId, gifts, resolved_users) ==
    IF gifts = <<>> THEN g
    ELSE ApplyGifts(ApplyGift(g, targetId, Head(gifts), resolved_users),
                    targetId, Tail(gifts), resolved_users)

ApplyUpdate(g, update) ==
    IF update.type \in {"user_found", "user_detail"}
    THEN ApplyUser(g, update.type, update.data)
    ELSE IF update.type = "user_gifts"
    THEN ApplyGifts(g, "u_" \o update.data.user_id, update.data.gifts,
                    update.data.resolved_users)
    ELSE g

----------------------------------------------------------------------------
(* processScanUpdate: ParsedUser generation *)

\* faulty variant: the role is derived from the provenance field, not from isTarget
PoolEntry_ByProvenance(n) ==
    [id |-> n.id, label |-> n.label, bio |-> n.title, channels |-> <<>>,
     sourceType |-> IF Truthy(n.discoveredFrom) THEN "discovered" ELSE "target",
     giftsSentTo |-> <<>>, giftsReceivedFrom |-> <<>>,
     totalGiftsSent |-> 0, totalGiftsReceived |-> 0,
     discoveredFrom |-> n.discoveredFrom]

PoolEntry(n) ==
    [id |-> n.id, label |-> n.label, bio |-> n.title, channels |-> <<>>,
     sourceType |-> IF Truthy(n.isTarget) THEN "target" ELSE "discovered",
     giftsSentTo |-> <<>>, giftsReceivedFrom |-> <<>>,
     totalGiftsSent |-> 0, totalGiftsReceived |-> 0,
     discoveredFrom |-> n.discoveredFrom]

UserPool(ns) ==
    LET users == SelectSeq(ns, LAMBDA n : n.group # "channel")
    IN  [i \in 1..Len(users) |-> PoolEntry(users[i])]

LinkCount(l) == IF l.value = 0 THEN 1 ELSE l.value

\* faulty variant: the recipient counts an edge once, whatever its weight
ProjectGift_ReceivedOnce(pool, l) ==
    LET si == NodeIndex(pool, l.source)
        ti == NodeIndex(pool, l.target)
        count == LinkCount(l)
        p1 == [pool EXCEPT
                 ![si].giftsSentTo = Append(@, [userId |-> l.target,
                                                label |-> pool[ti].label,
                                                count |-> count]),
                 ![si].totalGiftsSent = @ + count]
        p2 == [p1 EXCEPT
                 ![ti].giftsReceivedFrom = Append(@, [userId |-> l.source,
                                                      label |-> pool[si].label,
                                                      count |-> 1]),
                 ![ti].totalGiftsReceived = @ + 1]
    IN  [p2 EXCEPT ![si].sourceType =
                       IF @ = "discovered" THEN "gifter" ELSE @]

ProjectGift(pool, l) ==
    LET si == NodeIndex(pool, l.source)
        ti == NodeIndex(pool, l.target)
        count == LinkCount(l)
        p1 == [pool EXCEPT
                 ![si].giftsSentTo = Append(@, [userId |-> l.target,
                                                label |-> pool[ti].label,
                                                count |-> count]),
                 ![si].totalGiftsSent = @ + count]
        p2 == [p1 EXCEPT
                 ![ti].giftsReceivedFrom = Append(@, [userId |-> l.source,
                                                      label |-> pool[si].label,
                                                      count |-> count]),
                 ![ti].totalGiftsReceived = @ + count]
    IN  [p2 EXCEPT ![si].sourceType =
                       IF @ = "discovered" THEN "gifter" ELSE @]

\* faulty variant: a channel label is put at the front of the list
ProjectLink_NewestFirst(pool, ns, l) ==
    IF StartsWith(l.target, "c_") /\ HasNode(pool, l.source)
    THEN IF HasNode(ns, l.target)
         THEN [pool EXCEPT ![NodeIndex(pool, l.source)].channels =
                               <<GetNode(ns, l.target).label>> \o @]
         ELSE pool
    ELSE IF HasNode(pool, l.source) /\ HasNode(pool, l.target)
    THEN ProjectGift(pool, l)
    ELSE pool

ProjectLink(pool, ns, l) ==
    IF StartsWith(l.target, "c_") /\ HasNode(pool, l.source)
    THEN IF HasNode(ns, l.target)
         THEN [pool EXCEPT ![NodeIndex(pool, l.source)].channels =
                               Append(@, GetNode(ns, l.target).label)]
         ELSE pool
    ELSE IF HasNode(pool, l.source) /\ HasNode(pool, l.target)
    THEN ProjectGift(pool, l)
    ELSE pool

RECURSIVE LinkPass(_, _, _)
LinkPass(pool, ns, ls) ==
    IF ls = <<>> THEN pool
    ELSE LinkPass(ProjectLink(pool, ns, Head(ls)), ns, Tail(ls))

Project(ns, ls) == LinkPass(UserPool(ns), ns, ls)

----------------------------------------------------------------------------
(* Inputs: the messages a scan stream can carry *)

Ids == {"1", "2"}
Handles == {"a", "b"}
Targets == {"A", "B"}

AccountData(id, username, first_name, bio, type, via, clinks) ==
    [id |-> id, username |-> username, first_name |-> first_name,
     bio |-> bio, type |-> type, discovered_from |-> via,
     channel_links |-> clinks]

UserFound(id, username, first_name, bio, type, via) ==
    [type |-> "user_found",
     data |-> AccountData(id, username, first_name, bio, type, via, <<>>)]

UserDetail(id, via, clinks) ==
    [type |-> "user_detail",
     data |-> AccountData(id, Undefined, Undefined, Undefined, Undefined,
                          via, clinks)]

\* identity and provenance of a well-formed account
IdentityEvents ==
    {UserFound("1", u, f, Undefined, Undefined, Undefined) :
        u \in {Undefined, "alice"}, f \in {Undefined, "Al"}}
    \cup {UserFound("2", Undefined, Undefined, Undefined, Undefined, via) :
        via \in {Undefined, "1", "2"}}
    \cup {UserFound("2", "alice", Undefined, Undefined, Undefined, via) :
        via \in {Undefined, "1"}}
    \cup {UserFound("2", Undefined, "Al", Undefined, Undefined, Undefined),
          UserFound("1", Undefined, Undefined, Undefined, Undefined, "2")}

\* bio and type
ProfileEvents ==
    {UserFound(id, Undefined, Undefined, bt[1], bt[2], Undefined) :
        id \in Ids, bt \in {<<"bio", Undefined>>, <<Undefined, "channel">>}}

\* channel links (applied for user_detail, ignored for user_found)
LinkEvents ==
    {UserDetail("1", Undefined, cl) :
        cl \in {<<"a">>, <<"b">>, <<"a", "b">>, <<"a", "a">>}}
    \cup {UserDetail("2", Undefined, <<"a">>)}
    \cup {[type |-> "user_found",
           data |-> AccountData("1", Undefined, Undefined, Undefined,
                                Undefined, Undefined, <<"a">>)]}

\* account events without an id
NoIdEvents ==
    {UserFound(Undefined, Undefined, Undefined, Undefined, Undefined, Undefined),
     UserDetail(Undefined, "1", <<>>)}

AccountEvents == IdentityEvents \cup ProfileEvents \cup LinkEvents \cup NoIdEvents

Gift(sender_id) == [sender_id |-> sender_id]

UserGifts(user_id, gifts, resolved_users) ==
    [type |-> "user_gifts",
     data |-> [user_id |-> user_id, gifts |-> gifts,
               resolved_users |-> resolved_users]]

Unresolved == [s \in Ids |-> NotResolved]

ResolvedSets ==
    {Unresolved,
     [s \in Ids |-> [username |-> "bob", first_name |-> "Bo"]],
     [s \in Ids |-> [username |-> Undefined, first_name |-> "Bo"]]}

\* one entry; several entries; entries without sender; no recipient id
GiftEvents ==
    {UserGifts(rs[1], <<Gift(rs[2])>>, ru) :
        rs \in {<<"1", "2">>, <<"2", "1">>}, ru \in ResolvedSets}
    \cup {UserGifts("1", <<Gift("1")>>, Unresolved),
          UserGifts("2", <<Gift("1"), Gift("1")>>, Unresolved),
          UserGifts("1", <<Gift(Undefined)>>, Unresolved),
          UserGifts("1", <<Gift(Undefined), Gift("2")>>, Unresolved),
          UserGifts(Undefined, <<Gift("1")>>, Unresolved),
          UserGifts(Undefined, <<Gift(Undefined)>>, Unresolved)}

LogEvents == {[type |-> "log"]}

Updates == AccountEvents \cup GiftEvents \cup LogEvents

\* the messages used when the Scanner drives the store
StreamUpdates ==
    {UserFound("1", "alice", Undefined, Undefined, Undefined, Undefined),
     UserGifts("1", <<Gift("2")>>, Unresolved)}

----------------------------------------------------------------------------
(* History of the applied updates (reset with the store by startScan) *)

IsAccountEvent(u) == u.type \in {"user_found", "user_detail"}
IsGiftEvent(u) == u.type = "user_gifts"

GiftPairs(u) ==
    IF IsGiftEvent(u)
    THEN LET gs == SelectSeq(u.data.gifts, LAMBDA g : Truthy(g.sender_id))
         IN  [i \in 1..Len(gs) |-> <<gs[i].sender_id, u.data.user_id>>]
    ELSE <<>>

LinkPairs(u) ==
    IF u.type = "user_detail"
    THEN {<<"u_" \o u.data.id, u.data.channel_links[i]>> :
             i \in 1..Len(u.data.channel_links)}
    ELSE {}

CountIn(seq, x) == Cardinality({i \in 1..Len(seq) : seq[i] = x})

SeenCount(seen, pair) == IF pair \in DOMAIN seen THEN seen[pair] ELSE 0

Record(u) ==
    /\ applied' = applied + 1
    /\ last' = u
    /\ repeated' = (u = last)
    /\ linksSeen' = linksSeen \cup LinkPairs(u)
    /\ giftsSeen' =
         LET ps == GiftPairs(u)
             dom == DOMAIN giftsSeen \cup {ps[i] : i \in 1..Len(ps)}
         IN  [p \in dom |-> SeenCount(giftsSeen, p) + CountIn(ps, p)]
    /\ seenNoVia' =
         IF IsAccountEvent(u) /\ ~Truthy(u.data.discovered_from)
         THEN seenNoVia \cup {"u_" \o u.data.id}
         ELSE seenNoVia

ResetHistory ==
    /\ last' = NoEvent
    /\ repeated' = FALSE
    /\ giftsSeen' = [p \in {} |-> 0]
    /\ linksSeen' = {}
    /\ seenNoVia' = {}
    /\ from' = 0
    /\ UNCHANGED applied

----------------------------------------------------------------------------
(* Layout memory: networkNodePositions, a Record keyed by node id *)

NoPositions == [n \in {} |-> 0]

NoLayoutOp == [op |-> "none"]

\* faulty variant: a node that has a stored position keeps it
SetPosition_KeepFirst(positions, nodeId, position) ==
    [n \in DOMAIN positions \cup {nodeId} |->
        IF n \in DOMAIN positions THEN positions[n] ELSE position]

\* { ...s.networkNodePositions, [nodeId]: position }
SetPosition(positions, nodeId, position) ==
    [n \in DOMAIN positions \cup {nodeId} |->
        IF n = nodeId THEN position ELSE positions[n]]

----------------------------------------------------------------------------
(* Store operations *)

\* faulty variant: the view is projected from the edges as they were before the update
ApplyToStore_StaleView(update) ==
    IF update.type = "log"
    THEN UNCHANGED store
    ELSE LET g == ApplyUpdate([nodes |-> nodes, links |-> links], update)
         IN  /\ nodes' = g.nodes
             /\ links' = g.links
             /\ parsedUsers' = Project(g.nodes, links)

\* processScanUpdate(update)
ApplyToStore(update) ==
    IF update.type = "log"
    THEN UNCHANGED store
    ELSE LET g == ApplyUpdate([nodes |-> nodes, links |-> links], update)
         IN  /\ nodes' = g.nodes
             /\ links' = g.links
             /\ parsedUsers' = Project(g.nodes, g.links)

\* faulty variant: the graph is emptied and the view is kept
StartScan_KeepsView ==
    /\ isScanning' = TRUE
    /\ nodes' = <<>>
    /\ links' = <<>>
    /\ UNCHANGED parsedUsers
    /\ ResetHistory

\* startScan()
StartScan ==
    /\ isScanning' = TRUE
    /\ nodes' = <<>>
    /\ links' = <<>>
    /\ parsedUsers' = <<>>
    /\ ResetHistory

\* faulty variant: stopping discards the graph and the view
StopScan_DiscardsGraph ==
    /\ isScanning' = FALSE
    /\ nodes' = <<>>
    /\ links' = <<>>
    /\ parsedUsers' = <<>>
    /\ UNCHANGED hist

\* stopScan()
StopScan ==
    /\ isScanning' = FALSE
    /\ UNCHANGED <<store, hist>>

\* the WebSockets: live, the Scanner instance that opened the socket is still
\* mounted; errored, an error message was received; stopped, handleStop ran
\* while the stream was open; end, how the stream ended ("complete", "stop"
\* or "fault"); queued, the scanQueue at the moment it ended
Slots == 1..MaxSockets

NoSocket ==
    [chatId |-> "", state |-> "none", live |-> FALSE, errored |-> FALSE,
     stopped |-> FALSE, end |-> "", queued |-> <<>>]

Socket(chatId, live) ==
    [chatId |-> chatId, state |-> "open", live |-> live, errored |-> FALSE,
     stopped |-> FALSE, end |-> "", queued |-> <<>>]

\* closed, the setTimeout callback of its onclose pending
Settling(live, end, queued) ==
    [NoSocket EXCEPT !.state = "settling", !.live = live, !.end = end,
                     !.queued = queued]

Init ==
    /\ nodes = <<>>
    /\ links = <<>>
    /\ parsedUsers = <<>>
    /\ isScanning = FALSE
    /\ scanQueue = <<>>
    /\ scanTargetChatId = ""
    /\ activeTab = "discovery"
    /\ networkNodePositions = NoPositions
    /\ layoutOp = NoLayoutOp
    /\ sockets = [w \in Slots |-> NoSocket]
    /\ wsRef = 0
    /\ nodesB = <<>>
    /\ linksB = <<>>
    /\ parsedUsersB = <<>>
    /\ applied = 0
    /\ last = NoEvent
    /\ repeated = FALSE
    /\ giftsSeen = [p \in {} |-> 0]
    /\ linksSeen = {}
    /\ seenNoVia = {}
    /\ from = 0
    /\ stopHist = "never"
    /\ started = {}

----------------------------------------------------------------------------
(* The store driven as the Scanner drives it: startScan opens a session,    *)
(* the stream's messages are applied while it is scanning, stopScan ends it *)

ProcessScanUpdate(update) ==
    /\ isScanning
    /\ applied < MaxEvents
    /\ ApplyToStore(update)
    /\ Record(update)
    /\ from' = 0
    /\ UNCHANGED <<ctl, layout, storeB, stopHist, started>>

\* faulty variant: the session reset clears the stored node positions too
CallStartScan_ClearsLayout ==
    /\ StartScan
    /\ networkNodePositions' = NoPositions
    /\ UNCHANGED <<scanQueue, scanTargetChatId, activeTab, sockets, wsRef,
                   layoutOp, storeB, stopHist, started>>

CallStartScan ==
    /\ StartScan
    /\ UNCHANGED <<scanQueue, scanTargetChatId, activeTab, sockets, wsRef,
                   layout, storeB, stopHist, started>>

CallStopScan ==
    /\ isScanning
    /\ StopScan
    /\ UNCHANGED <<scanQueue, scanTargetChatId, activeTab, sockets, wsRef,
                   layout, storeB, stopHist, started>>

Next ==
    \/ \E update \in Updates : ProcessScanUpdate(update)
    \/ CallStartScan
    \/ CallStopScan

Spec == Init /\ [][Next]_vars

----------------------------------------------------------------------------
(* The Scanner component driving the store *)

QueueInputs == {<<"A">>, <<"A", "B">>, <<"B", "A">>}

Tabs == {"discovery", "scanner"}

\* {activeTab === 'scanner' && <Scanner />}
Mounted == activeTab = "scanner"

IsOpen(w) == sockets[w].state = "open"
Unclosed(w) == sockets[w].state \in {"open", "closing"}

IsSettling(w) == sockets[w].state = "settling"

IsFree(socks, w) == socks[w].state = "none"
HasFree == \E w \in Slots : IsFree(sockets, w)
FreeSlot(socks) ==
    CHOOSE w \in Slots : IsFree(socks, w) /\ \A v \in 1..(w - 1) : ~IsFree(socks, v)

\* new WebSocket(...); wsRef.current = ws (socks: the sockets before the call)
OpenSocket(chatId, live, socks) ==
    /\ sockets' = [socks EXCEPT ![FreeSlot(socks)] = Socket(chatId, live)]
    /\ wsRef' = IF live THEN FreeSlot(socks) ELSE wsRef

\* startScanForId(chatId)
StartScanForId(chatId, live, socks) ==
    IF ~Truthy(chatId)
    THEN /\ sockets' = socks
         /\ UNCHANGED <<scanTargetChatId, isScanning, store, hist, wsRef,
                        started>>
    ELSE /\ scanTargetChatId' = chatId
         /\ StartScan
         /\ OpenSocket(chatId, live, socks)
         /\ started' = started \cup {chatId}

\* faulty variant: the effect does not look at isScanning
AutostartEnabled_IgnoresScanning == scanQueue # <<>>

\* the effect on [scanQueue, isScanning, autoProcess]
AutostartEnabled == scanQueue # <<>> /\ ~isScanning

\* the effect runs after the render that enabled it, before any further input
EffectDue == Mounted /\ AutostartEnabled

Restarted == IF stopHist \in {"stopped", "settled"} THEN "restarted" ELSE stopHist

\* faulty variant: the queue is left as it is, the head is started again later
Autostart_KeepsQueue ==
    /\ EffectDue
    /\ HasFree
    /\ UNCHANGED scanQueue
    /\ StartScanForId(Head(scanQueue), TRUE, sockets)
    /\ UNCHANGED <<activeTab, layout, storeB, stopHist>>

\* faulty variant: the effect starts the last target of the queue
Autostart_StartsLast ==
    /\ EffectDue
    /\ HasFree
    /\ scanQueue' = SubSeq(scanQueue, 1, Len(scanQueue) - 1)
    /\ StartScanForId(scanQueue[Len(scanQueue)], TRUE, sockets)
    /\ UNCHANGED <<activeTab, layout, storeB, stopHist>>

Autostart ==
    /\ EffectDue
    /\ HasFree
    /\ scanQueue' = Tail(scanQueue)
    /\ StartScanForId(Head(scanQueue), TRUE, sockets)
    /\ UNCHANGED <<activeTab, layout, storeB, stopHist>>

\* Discovery.handleStartAnalysis: the Scanner is mounted by setActiveTab
Enqueue(q) ==
    /\ activeTab = "discovery"
    /\ scanQueue' = q
    /\ scanTargetChatId' = Head(q)
    /\ activeTab' = "scanner"
    /\ stopHist' = Restarted
    /\ started' = {}
    /\ UNCHANGED <<store, hist, isScanning, sockets, wsRef,
                   layout, storeB>>

\* the tab buttons: leaving 'scanner' unmounts the Scanner
SetActiveTab(tab) ==
    /\ tab # activeTab
    /\ ~EffectDue
    /\ activeTab' = tab
    /\ IF Mounted
       THEN /\ sockets' = [w \in Slots |-> [sockets[w] EXCEPT !.live = FALSE]]
            /\ wsRef' = 0
       ELSE UNCHANGED <<sockets, wsRef>>
    /\ UNCHANGED <<store, hist, isScanning, scanQueue, scanTargetChatId,
                   layout, storeB, stopHist, started>>

\* the target input's onChange
OnChangeTarget(val) ==
    /\ Mounted
    /\ ~EffectDue
    /\ ~isScanning
    /\ scanTargetChatId # val
    /\ scanTargetChatId' = val
    /\ UNCHANGED <<store, hist, isScanning, scanQueue, activeTab, sockets,
                   wsRef, layout, storeB, stopHist, started>>

\* the start button's onClick while not scanning
ClickStart ==
    /\ Mounted
    /\ ~EffectDue
    /\ ~isScanning
    /\ Truthy(scanTargetChatId)
    /\ HasFree
    /\ StartScanForId(scanTargetChatId, TRUE, sockets)
    /\ stopHist' = Restarted
    /\ UNCHANGED <<scanQueue, activeTab, layout, storeB>>

\* ws.onmessage, data.type = 'complete': ws.close()
OnMessageComplete(w) ==
    /\ IsOpen(w)
    /\ sockets' = [sockets EXCEPT ![w].state = "closing"]
    /\ UNCHANGED <<store, hist, isScanning, scanQueue, scanTargetChatId,
                   activeTab, wsRef, layout, storeB, stopHist, started>>

\* ws.onmessage, data.type = 'error': logged only
OnMessageError(w) ==
    /\ IsOpen(w)
    /\ sockets' = [sockets EXCEPT ![w].errored = TRUE]
    /\ UNCHANGED <<store, hist, isScanning, scanQueue, scanTargetChatId,
                   activeTab, wsRef, layout, storeB, stopHist, started>>

\* ws.onmessage, any other message
OnMessageUpdate(w, update) ==
    /\ IsOpen(w)
    /\ applied < MaxStreamEvents
    /\ ApplyToStore(update)
    /\ Record(update)
    /\ from' = w
    /\ UNCHANGED <<ctl, layout, storeB, stopHist, started>>

\* how the stream in slot w ends if it closes now
EndOf(w) ==
    IF IsOpen(w) THEN "fault"
    ELSE IF sockets[w].stopped THEN "stop" ELSE "complete"

\* ws.onclose, after close() or a transport fault
OnClose(w) ==
    /\ Unclosed(w)
    /\ sockets' = [sockets EXCEPT ![w] = IF isScanning
                                        THEN Settling(sockets[w].live, EndOf(w),
                                                      scanQueue)
                                        ELSE NoSocket]
    /\ wsRef' = IF wsRef = w THEN 0 ELSE wsRef
    /\ UNCHANGED <<store, hist, isScanning, scanQueue, scanTargetChatId,
                   activeTab, layout, storeB, stopHist, started>>

\* faulty variant: the next target is started but stays at the head of the queue
SettleTimer_KeepsHead(w) ==
    /\ IsSettling(w)
    /\ LET done == [sockets EXCEPT ![w] = NoSocket]
       IN  IF ~isScanning
           THEN /\ sockets' = done
                /\ UNCHANGED <<store, hist, isScanning, scanQueue,
                               scanTargetChatId, wsRef, started>>
           ELSE IF scanQueue # <<>>
           THEN /\ UNCHANGED scanQueue
                /\ StartScanForId(Head(scanQueue), sockets[w].live, done)
           ELSE /\ StopScan
                /\ sockets' = done
                /\ UNCHANGED <<scanQueue, scanTargetChatId, wsRef, started>>
    /\ stopHist' = IF stopHist = "stopped" THEN "settled" ELSE stopHist
    /\ UNCHANGED <<activeTab, layout, storeB>>

\* faulty variant: with the queue empty the timer leaves isScanning set
SettleTimer_StaysScanning(w) ==
    /\ IsSettling(w)
    /\ LET done == [sockets EXCEPT ![w] = NoSocket]
       IN  IF ~isScanning \/ scanQueue = <<>>
           THEN /\ sockets' = done
                /\ UNCHANGED <<store, hist, isScanning, scanQueue,
                               scanTargetChatId, wsRef, started>>
           ELSE /\ scanQueue' = Tail(scanQueue)
                /\ StartScanForId(Head(scanQueue), sockets[w].live, done)
    /\ stopHist' = IF stopHist = "stopped" THEN "settled" ELSE stopHist
    /\ UNCHANGED <<activeTab, layout, storeB>>

\* the setTimeout callback of the onclose of the socket that was in slot w
SettleTimer(w) ==
    /\ IsSettling(w)
    /\ LET done == [sockets EXCEPT ![w] = NoSocket]
       IN  IF ~isScanning
           THEN /\ sockets' = done
                /\ UNCHANGED <<store, hist, isScanning, scanQueue,
                               scanTargetChatId, wsRef, started>>
           ELSE IF scanQueue # <<>>
           THEN /\ scanQueue' = Tail(scanQueue)
                /\ StartScanForId(Head(scanQueue), sockets[w].live, done)
           ELSE /\ StopScan
                /\ sockets' = done
                /\ UNCHANGED <<scanQueue, scanTargetChatId, wsRef, started>>
    /\ stopHist' = IF stopHist = "stopped" THEN "settled" ELSE stopHist
    /\ UNCHANGED <<activeTab, layout, storeB>>

\* wsRef.current.close(), and the streams that are open at that moment
StopSockets ==
    [w \in Slots |->
        IF IsOpen(w)
        THEN [sockets[w] EXCEPT !.stopped = TRUE,
                                !.state = IF w = wsRef THEN "closing" ELSE @]
        ELSE sockets[w]]

\* faulty variant: the remaining queue is not cleared
HandleStop_KeepsQueue ==
    /\ Mounted
    /\ isScanning
    /\ UNCHANGED scanQueue
    /\ StopScan
    /\ sockets' = StopSockets
    /\ stopHist' = "stopped"
    /\ UNCHANGED <<scanTargetChatId, activeTab, wsRef, layout,
                   storeB, started>>

\* handleStop
HandleStop ==
    /\ Mounted
    /\ isScanning
    /\ scanQueue' = <<>>
    /\ StopScan
    /\ sockets' = StopSockets
    /\ stopHist' = "stopped"
    /\ UNCHANGED <<scanTargetChatId, activeTab, wsRef, layout,
                   storeB, started>>

NextCtl ==
    \/ \E q \in QueueInputs : Enqueue(q)
    \/ \E tab \in Tabs : SetActiveTab(tab)
    \/ Autostart
    \/ \E val \in Targets : OnChangeTarget(val)
    \/ ClickStart
    \/ \E w \in Slots : OnMessageComplete(w)
    \/ \E w \in Slots : OnMessageError(w)
    \/ \E w \in Slots, update \in StreamUpdates : OnMessageUpdate(w, update)
    \/ \E w \in Slots : OnClose(w)
    \/ \E w \in Slots : SettleTimer(w)
    \/ HandleStop

SpecCtl == Init /\ [][NextCtl]_vars

----------------------------------------------------------------------------
(* Two stores fed independently: processScanUpdate is applied to either,   *)
(* with any of the messages below, so that the same graph can be reached   *)
(* by different sequences of events.                                       *)

PairUpdates ==
    {UserFound("1", "alice", Undefined, Undefined, Undefined, Undefined),
     UserFound("1", Undefined, Undefined, Undefined, Undefined, Undefined),
     UserDetail("1", Undefined, <<"a">>),
     UserDetail("1", Undefined, <<"a", "a">>),
     UserGifts("1", <<Gift("2")>>, Unresolved)}

\* processScanUpdate(update) on the second store
ApplyToStoreB(update) ==
    IF update.type = "log"
    THEN UNCHANGED storeB
    ELSE LET g == ApplyUpdate([nodes |-> nodesB, links |-> linksB], update)
         IN  /\ nodesB' = g.nodes
             /\ linksB' = g.links
             /\ parsedUsersB' = Project(g.nodes, g.links)

PairApply(update) ==
    /\ applied < MaxPairEvents
    /\ ApplyToStore(update)
    /\ applied' = applied + 1
    /\ UNCHANGED <<storeB, ctl, layout, last, repeated,
                   giftsSeen, linksSeen, seenNoVia, from, stopHist, started>>

PairApplyB(update) ==
    /\ applied < MaxPairEvents
    /\ ApplyToStoreB(update)
    /\ applied' = applied + 1
    /\ UNCHANGED <<store, ctl, layout, last, repeated,
                   giftsSeen, linksSeen, seenNoVia, from, stopHist, started>>

NextPair ==
    \/ \E update \in PairUpdates : PairApply(update)
    \/ \E update \in PairUpdates : PairApplyB(update)

SpecPair == Init /\ [][NextPair]_vars

----------------------------------------------------------------------------
(* The store with its layout memory: the NetworkGraph saves and clears     *)
(* node positions while scans start, deliver updates and stop.             *)

NodeIds == {"u_1", "u_2", "c_a"}

Positions ==
    {[x |-> "10", y |-> "20", fx |-> Undefined, fy |-> Undefined],
     [x |-> "30", y |-> "40", fx |-> "30", fy |-> "40"]}

\* updateNodePosition(nodeId, position)
UpdateNodePosition(nodeId, position) ==
    /\ networkNodePositions' = SetPosition(networkNodePositions, nodeId, position)
    /\ layoutOp' = [op |-> "put", nodeId |-> nodeId, position |-> position]
    /\ UNCHANGED <<store, storeB, ctl, hist, stopHist, started>>

\* clearNodePositions()
ClearNodePositions ==
    /\ networkNodePositions' = NoPositions
    /\ layoutOp' = [op |-> "clear"]
    /\ UNCHANGED <<store, storeB, ctl, hist, stopHist, started>>

LayoutApply(update) ==
    /\ isScanning
    /\ applied < MaxStreamEvents
    /\ ApplyToStore(update)
    /\ Record(update)
    /\ from' = 0
    /\ UNCHANGED <<ctl, layout, storeB, stopHist, started>>

NextLayout ==
    \/ \E nodeId \in NodeIds, position \in Positions :
          UpdateNodePosition(nodeId, position)
    \/ ClearNodePositions
    \/ \E update \in StreamUpdates : LayoutApply(update)
    \/ CallStartScan
    \/ CallStopScan

SpecLayout == Init /\ [][NextLayout]_vars

----------------------------------------------------------------------------
(* Vocabulary of the properties *)

IsAccountId(id) == StartsWith(id, "u_")
IsChannelId(id) == StartsWith(id, "c_")
IsGiftLink(l) == IsAccountId(l.source) /\ IsAccountId(l.target)
IsMembership(l) == IsAccountId(l.source) /\ IsChannelId(l.target)

HasRecord(pu, id) == \E i \in 1..Len(pu) : pu[i].id = id
RecordOf(pu, id) == pu[CHOOSE i \in 1..Len(pu) : pu[i].id = id]
RoleOf(pu, id) == IF HasRecord(pu, id) THEN RecordOf(pu, id).sourceType ELSE "none"

HasProvenance(ns, id) == HasNode(ns, id) /\ Truthy(GetNode(ns, id).discoveredFrom)

RECURSIVE SumWeights(_)
SumWeights(ls) == IF ls = <<>> THEN 0 ELSE Head(ls).value + SumWeights(Tail(ls))

SentWeight(ls, id) ==
    SumWeights(SelectSeq(ls, LAMBDA l : IsGiftLink(l) /\ l.source = id))
ReceivedWeight(ls, id) ==
    SumWeights(SelectSeq(ls, LAMBDA l : IsGiftLink(l) /\ l.target = id))

\* this step is a call of processScanUpdate; last' is its argument
AppliedNow == applied' = applied + 1
AccountStep == AppliedNow /\ IsAccountEvent(last')
StepUid == "u_" \o last'.data.id
DuplicateStep == AppliedNow /\ last' = last

\* this step is the timer callback of a closed socket; a socket is opened in slot w
SettleStep == \E w \in Slots : IsSettling(w) /\ sockets'[w].state # "settling"
Opened(w) == sockets[w].state # "open" /\ sockets'[w].state = "open"

NodesKept == \A i \in 1..Len(nodes) : HasNode(nodes', nodes[i].id)
LinksKept == \A i \in 1..Len(links) : HasLink(links', LinkKey(links[i]))

----------------------------------------------------------------------------
(* C1 - queue continuity.  When the settle timer of a finished stream      *)
(* starts the next queued target, every node and edge of the graph store   *)
(* is still in the store.                                                  *)

QueueAdvance ==
    /\ scanQueue # <<>>
    /\ SettleStep
    /\ scanQueue' = Tail(scanQueue)
    /\ \E w \in Slots : Opened(w)

C1_QueueContinuity == [][QueueAdvance => NodesKept /\ LinksKept]_vars

----------------------------------------------------------------------------
(* C2 - provenance stability.  An account that has provenance and is then  *)
(* observed by an account event without discovered_from keeps its          *)
(* discoveredFrom.  The claim adds that its role is not 'target'; the code *)
(* sets isTarget on exactly such an event, so the role becomes 'target'.   *)

ReobservedWithoutVia ==
    /\ AccountStep
    /\ ~Truthy(last'.data.discovered_from)
    /\ HasProvenance(nodes, StepUid)

ProvenanceKept ==
    GetNode(nodes', StepUid).discoveredFrom = GetNode(nodes, StepUid).discoveredFrom

----------------------------------------------------------------------------
(* C3 - role precedence.  Every account node with provenance that is the   *)
(* sender of a gift edge is projected with role 'gifter'.                  *)

SendsGift(ls, id) == \E i \in 1..Len(ls) : IsGiftLink(ls[i]) /\ ls[i].source = id

C3_RolePrecedence ==
    \A i \in 1..Len(nodes) :
        (IsAccountId(nodes[i].id) /\ Truthy(nodes[i].discoveredFrom)
            /\ SendsGift(links, nodes[i].id))
        => RoleOf(parsedUsers, nodes[i].id) = "gifter"

----------------------------------------------------------------------------
(* C4 - gift accumulation.  For every sender S and recipient R with gift   *)
(* entries applied this session there is exactly one edge u_S -> u_R, its  *)
(* weight is the number of entries, and after three entries from S alone   *)
(* the projection shows total_sent[S] = total_received[R] = 3.             *)

PairLinks(ls, pair) ==
    SelectSeq(ls, LAMBDA l : l.source = "u_" \o pair[1] /\ l.target = "u_" \o pair[2])

OnlySender(pair) ==
    \A q \in DOMAIN giftsSeen : (q[1] = pair[1] \/ q[2] = pair[2]) => q = pair

C4_GiftAccumulation ==
    \A pair \in DOMAIN giftsSeen :
        /\ Len(PairLinks(links, pair)) = 1
        /\ PairLinks(links, pair)[1].value = giftsSeen[pair]
        /\ (giftsSeen[pair] = 3 /\ OnlySender(pair)) =>
              /\ HasRecord(parsedUsers, "u_" \o pair[1])
              /\ HasRecord(parsedUsers, "u_" \o pair[2])
              /\ RecordOf(parsedUsers, "u_" \o pair[1]).totalGiftsSent = 3
              /\ RecordOf(parsedUsers, "u_" \o pair[2]).totalGiftsReceived = 3

----------------------------------------------------------------------------
(* C5 - idempotence of account-observed.  Applying the user_found or       *)
(* user_detail event that was applied just before leaves nodes, links and  *)
(* parsedUsers as they are.                                                *)

C5_AccountIdempotent ==
    [][(DuplicateStep /\ IsAccountEvent(last)) => UNCHANGED store]_vars

C5_Witness ==
    /\ repeated
    /\ last.type = "user_detail"
    /\ Len(nodes) >= 3
    /\ Len(links) >= 2

----------------------------------------------------------------------------
(* C6 - membership uniqueness.  No two links share (source, target), no    *)
(* two nodes share an id, and every (account, handle) pair applied by a    *)
(* user_detail event has exactly one membership edge and one channel node. *)

CountLinks(ls, s, t) ==
    Cardinality({i \in 1..Len(ls) : ls[i].source = s /\ ls[i].target = t})
CountNodes(ns, id) == Cardinality({i \in 1..Len(ns) : ns[i].id = id})

C6_MembershipUnique ==
    /\ \A i \in 1..Len(links) :
          IsMembership(links[i]) =>
              CountLinks(links, links[i].source, links[i].target) = 1
    /\ \A i \in 1..Len(nodes) :
          IsChannelId(nodes[i].id) => CountNodes(nodes, nodes[i].id) = 1
    /\ \A p \in linksSeen :
          /\ CountLinks(links, p[1], "c_" \o p[2]) = 1
          /\ CountNodes(nodes, "c_" \o p[2]) = 1

C6_Witness ==
    /\ repeated
    /\ last.type = "user_detail"
    /\ \E p \in linksSeen : p[1] = "u_" \o last.data.id
    /\ Cardinality(linksSeen) >= 2

----------------------------------------------------------------------------
(* C7 - duplicate delivery.  The claim: re-applying a duplicate of an      *)
(* applied event of any kind leaves nodes, links and weights unchanged.    *)
(* The code: re-applying the event applied just before leaves the nodes    *)
(* and the sequence of edges unchanged, and adds to each edge's weight the *)
(* number of the event's gift entries for that edge (none for account and  *)
(* channel-link events).                                                   *)

IsGraphEvent(u) == IsAccountEvent(u) \/ IsGiftEvent(u)

GiftAdds(u, l) ==
    CountIn([i \in 1..Len(GiftPairs(u)) |->
                <<"u_" \o GiftPairs(u)[i][1], "u_" \o GiftPairs(u)[i][2]>>],
            <<l.source, l.target>>)

----------------------------------------------------------------------------
(* C8 - malformed events.  An account event without id, or a gift event    *)
(* without recipient id, leaves nodes, links and parsedUsers unchanged.    *)

Malformed(u) ==
    \/ IsAccountEvent(u) /\ ~Truthy(u.data.id)
    \/ IsGiftEvent(u) /\ ~Truthy(u.data.user_id)

C8_MalformedRejected ==
    [][(AppliedNow /\ Malformed(last')) => UNCHANGED store]_vars

----------------------------------------------------------------------------
(* C9 - totals match edges.  Every record's totalGiftsSent is the sum of   *)
(* the weights of the gift edges it sends, and totalGiftsReceived the sum  *)
(* of the weights of the gift edges it receives.                           *)

C9_TotalsMatchEdges ==
    \A i \in 1..Len(parsedUsers) :
        /\ parsedUsers[i].totalGiftsSent = SentWeight(links, parsedUsers[i].id)
        /\ parsedUsers[i].totalGiftsReceived
             = ReceivedWeight(links, parsedUsers[i].id)

----------------------------------------------------------------------------
(* C10 - target classification.  The claim: a record's role is 'target'    *)
(* iff its node has no provenance.  The code: a record's role is 'target'  *)
(* iff an account event without discovered_from has been applied for the   *)
(* account this session, whether or not provenance is recorded; a sender   *)
(* created by a gift event has neither provenance nor role 'target'.       *)

----------------------------------------------------------------------------
(* C11 - stop is effective for future events.  Once handleStop has run     *)
(* while a stream was open, no message of that stream changes graphData or *)
(* parsedUsers.  handleStop closes only the socket held in wsRef; a stream *)
(* opened by a Scanner instance that has been unmounted since is not in    *)
(* wsRef, stays open, and its onmessage still calls processScanUpdate.     *)

AppliedFromStopped ==
    /\ AppliedNow
    /\ from' \in Slots
    /\ sockets[from'].stopped

C11_StopEffective == [][AppliedFromStopped => UNCHANGED store]_vars

----------------------------------------------------------------------------
(* C12 - stop keeps what was built.  Every step that turns isScanning off  *)
(* (handleStop, or stopScan called by a settle timer) leaves the nodes,    *)
(* the edges and parsedUsers exactly as they were; of the modelled state   *)
(* it changes only isScanning, scanQueue and the sockets.                  *)

StopStep == isScanning /\ ~isScanning'

C12_StopKeepsGraph ==
    [][StopStep => UNCHANGED <<store, scanTargetChatId, activeTab,
                               networkNodePositions>>]_vars

C12_Witness ==
    /\ stopHist = "stopped"
    /\ ~isScanning
    /\ nodes # <<>>
    /\ parsedUsers # <<>>
    /\ scanQueue = <<>>
    /\ \A w \in Slots : ~IsOpen(w)

----------------------------------------------------------------------------
(* C13 - hard cancellation.  handleStop, whether a stream is open or the   *)
(* one-second timer of a closed stream is pending, leaves scanQueue empty  *)
(* and isScanning false; and from then until the next enqueue or manual    *)
(* start, scanQueue stays empty, isScanning stays false and no socket is   *)
(* opened: a timer that was pending at the stop finds isScanning false and *)
(* returns.                                                                *)

HandleStopStep == StopStep /\ stopHist' = "stopped"

AfterStop ==
    /\ stopHist \in {"stopped", "settled"}
    /\ stopHist' \in {"stopped", "settled"}

Halted ==
    /\ scanQueue' = <<>>
    /\ ~isScanning'
    /\ \A w \in Slots : ~Opened(w)

C13_HardCancellation == [][(HandleStopStep \/ AfterStop) => Halted]_vars

\* a timer that was pending when stop was requested has run since
C13_Witness ==
    /\ stopHist = "settled"
    /\ scanQueue = <<>>
    /\ ~isScanning

----------------------------------------------------------------------------
(* C14 - stream-complete transition.  After a 'complete' message the       *)
(* socket is closed; with no stop requested its onclose sets the one-      *)
(* second timer, and when the timer fires while scanning: if the queue is  *)
(* non-empty its head is removed and exactly one stream, for that head, is *)
(* opened, scanTargetChatId naming it; if the queue is empty isScanning    *)
(* becomes false and no stream is opened.                                  *)

\* the onclose of the stream in slot w that ended by 'complete', no stop requested
CompleteClosed(w) ==
    /\ sockets[w].state = "closing"
    /\ ~sockets[w].stopped
    /\ isScanning
    /\ sockets'[w].state \notin {"closing", "open"}

OpenedFor(chatId) ==
    /\ \E w \in Slots : Opened(w) /\ sockets'[w].chatId = chatId
    /\ \A v, w \in Slots : Opened(v) /\ Opened(w) => v = w

SettleOutcome ==
    IF scanQueue # <<>>
    THEN /\ scanQueue' = Tail(scanQueue)
         /\ isScanning'
         /\ scanTargetChatId' = Head(scanQueue)
         /\ OpenedFor(Head(scanQueue))
    ELSE /\ ~isScanning'
         /\ scanQueue' = <<>>
         /\ \A w \in Slots : ~Opened(w)

\* with no stop requested so far there is one stream at a time, and
\* isScanning is true from its start until its timer has fired
OneStream ==
    \A w \in Slots :
        ~IsFree(sockets, w) =>
            isScanning /\ \A v \in Slots \ {w} : IsFree(sockets, v)

C14_CompleteTransition ==
    [][/\ stopHist = "never" => OneStream
       /\ \A w \in Slots :
            CompleteClosed(w) =>
                sockets'[w] = Settling(sockets[w].live, "complete", scanQueue)
       /\ (SettleStep /\ isScanning) => SettleOutcome]_vars

\* the timer of a stream that completed is about to start the queued target
\* 'B' and, with the queue then empty, the timer of B's stream to go idle
C14_Witness ==
    /\ stopHist = "never"
    /\ isScanning
    /\ \E w \in Slots : IsSettling(w) /\ sockets[w].end = "complete"
    /\ \A w \in Slots : ~IsOpen(w)
    /\ scanQueue = <<"B">>
    /\ scanTargetChatId = "A"

----------------------------------------------------------------------------
(* C15 - autostart.  When isScanning is false and scanQueue is non-empty,  *)
(* nothing else happens in the mounted Scanner before its effect runs, and *)
(* the stream that is opened is for the head of the queue: the head is     *)
(* removed, the rest stays queued in order, isScanning becomes true and    *)
(* scanTargetChatId names the head.                                        *)

IdleWithQueue == ~isScanning /\ scanQueue # <<>>

AutostartOutcome ==
    /\ scanQueue' = Tail(scanQueue)
    /\ isScanning'
    /\ scanTargetChatId' = Head(scanQueue)
    /\ OpenedFor(Head(scanQueue))

C15_Autostart ==
    [][/\ (IdleWithQueue /\ \E w \in Slots : Opened(w)) => AutostartOutcome
       /\ (IdleWithQueue /\ Mounted) =>
              \/ AutostartOutcome
              \/ UNCHANGED <<isScanning, scanQueue, scanTargetChatId, activeTab>>
      ]_vars

\* <<"A", "B">> was enqueued while idle and the effect has started 'A'
C15_Witness ==
    /\ stopHist = "never"
    /\ isScanning
    /\ \E w \in Slots : IsOpen(w) /\ sockets[w].chatId = "A" /\ wsRef = w
    /\ \A w \in Slots : ~IsSettling(w)
    /\ scanQueue = <<"B">>
    /\ scanTargetChatId = "A"
    /\ applied = 0

----------------------------------------------------------------------------
(* The controller with the scheduling the browser guarantees: a socket on  *)
(* which close() was called gets its onclose, a timer that was set fires,  *)
(* and the effect of a mounted Scanner runs.  Nothing obliges the server   *)
(* to close a stream or to send another message.                           *)

CloseDispatched == \E w \in Slots : sockets[w].state = "closing" /\ OnClose(w)
TimerFires == \E w \in Slots : SettleTimer(w)

Fairness ==
    /\ WF_vars(CloseDispatched)
    /\ WF_vars(TimerFires)
    /\ WF_vars(Autostart)

SpecCtlFair == Init /\ [][NextCtl]_vars /\ Fairness

----------------------------------------------------------------------------
(* C16 - stream error handling.  Once the stream of the active target has  *)
(* reported an error while targets are queued, the controller eventually   *)
(* leaves that target: the queue is popped or the scan is stopped.  An     *)
(* 'error' message is only logged: the socket stays open and no timer is   *)
(* set, so the queued targets wait for as long as the server keeps the     *)
(* connection open.                                                        *)

ErrorReported(w, q) ==
    /\ IsOpen(w)
    /\ sockets[w].errored
    /\ ~sockets[w].stopped
    /\ sockets[w].chatId = scanTargetChatId
    /\ isScanning
    /\ scanQueue = q

C16_ErrorDrainsQueue ==
    \A w \in Slots : \A q \in QueueInputs :
        ErrorReported(w, q) ~> (scanQueue # q \/ ~isScanning)

----------------------------------------------------------------------------
(* C17 - queue mutation while a stream is in flight.  Replacing scanQueue  *)
(* while isScanning is true and a stream is open changes no socket, keeps  *)
(* isScanning and the graph, and leaves the autostart effect disabled; and *)
(* while a stream is in flight a stream is opened only by the timer of a   *)
(* stream that has ended.  The claim says the targets started afterwards   *)
(* are those queued at the moment the stream ended; the timer reads        *)
(* scanQueue when it fires, one second later, so a queue replaced in       *)
(* between is the one that is used.                                        *)

InFlight == isScanning /\ \E w \in Slots : IsOpen(w)

QueueReplaced ==
    /\ activeTab = "discovery"
    /\ activeTab' = "scanner"
    /\ scanQueue' \in QueueInputs

StreamUntouched ==
    (InFlight /\ QueueReplaced) =>
        /\ sockets' = sockets
        /\ isScanning'
        /\ UNCHANGED store
        /\ ~EffectDue'

\* the timer of the stream that was in slot v fires and opens a stream
TimerStarts(v) ==
    /\ IsSettling(v)
    /\ sockets'[v].state # "settling"
    /\ \E w \in Slots : Opened(w)

Elems(q) == {q[i] : i \in 1..Len(q)}

C17_QueueMutation_Original ==
    [][/\ StreamUntouched
       /\ \A v, w \in Slots :
              (TimerStarts(v) /\ Opened(w)) =>
                  sockets'[w].chatId \in Elems(sockets[v].queued)
      ]_vars

C17_QueueMutation ==
    [][/\ StreamUntouched
       /\ \A w \in Slots :
              (InFlight /\ Opened(w)) => SettleStep
       /\ \A v, w \in Slots :
              (TimerStarts(v) /\ Opened(w)) =>
                  /\ scanQueue # <<>>
                  /\ sockets'[w].chatId = Head(scanQueue)
                  /\ scanQueue' = Tail(scanQueue)
      ]_vars

\* the queue was replaced by <<"B", "A">> while a stream was in flight; the
\* stream has completed since and its timer is pending
C17_Witness ==
    /\ stopHist = "never"
    /\ isScanning
    /\ scanQueue = <<"B", "A">>
    /\ \E w \in Slots :
          /\ IsSettling(w)
          /\ sockets[w].end = "complete"
          /\ sockets[w].queued = scanQueue

----------------------------------------------------------------------------
(* C18 - projection determinism.  Two stores that hold the same graph, the *)
(* same nodes in the same order and the same edges in the same order, have *)
(* the same parsedUsers, record for record and list entry for list entry,  *)
(* whatever events either of them received.                                *)

SameSnapshot == nodes = nodesB /\ links = linksB

----------------------------------------------------------------------------
(* C19 - one record per account.  parsedUsers has exactly one record for   *)
(* every node with a u_ id and none for a node with a c_ id.  The pool     *)
(* skips nodes by group, not by id, and an account event's type field is   *)
(* copied into group: an account observed with type 'channel' has a node   *)
(* and no record.                                                          *)

RecordCount(pu, id) == Len(SelectSeq(pu, LAMBDA r : r.id = id))

C19_OneRecordPerAccount ==
    \A i \in 1..Len(nodes) :
        /\ IsAccountId(nodes[i].id) => RecordCount(parsedUsers, nodes[i].id) = 1
        /\ IsChannelId(nodes[i].id) => RecordCount(parsedUsers, nodes[i].id) = 0

----------------------------------------------------------------------------
(* C20 - account creation.  The first account event (one that applies no   *)
(* channel links) for an id that no node and no edge of the graph names    *)
(* yet gives the account a record with role 'target' if discovered_from is *)
(* absent and 'discovered' if it is present, label '@username' if a        *)
(* username is given, no channels and zero totals.  An event that carries  *)
(* type 'channel' creates the node and no record.                          *)

Unseen(id) ==
    /\ ~HasNode(nodes, id)
    /\ \A i \in 1..Len(links) : links[i].source # id /\ links[i].target # id

FirstObserved ==
    /\ AccountStep
    /\ Truthy(last'.data.id)
    /\ Unseen(StepUid)
    /\ last'.type = "user_detail" => last'.data.channel_links = <<>>

CreatedAsObserved ==
    /\ HasRecord(parsedUsers', StepUid)
    /\ LET r == RecordOf(parsedUsers', StepUid)
           data == last'.data
       IN  /\ r.sourceType = IF Truthy(data.discovered_from)
                             THEN "discovered" ELSE "target"
           /\ Truthy(data.username) => r.label = "@" \o data.username
           /\ r.channels = <<>>
           /\ r.totalGiftsSent = 0
           /\ r.totalGiftsReceived = 0

C20_AccountCreation == [][FirstObserved => CreatedAsObserved]_vars

----------------------------------------------------------------------------
(* C21 - discovery chain.  A gift event for a recipient R that has a node, *)
(* with one entry, naming a sender S that no node and no edge names yet:   *)
(* S gets a node labelled from resolved_users (username, else first name,  *)
(* else U_<id>) and the edge S-R of weight 1, and the view shows S as      *)
(* 'gifter' with totalGiftsSent 1 and R with totalGiftsReceived 1.  The    *)
(* totals and the role are set only if R has a record, and an R observed   *)
(* with type 'channel' has none.                                           *)

GiftStep == AppliedNow /\ IsGiftEvent(last')

\* the one entry of the event, as <<sender id, recipient id>>
OnlyEntry == GiftPairs(last')[1]

ChainStep ==
    /\ GiftStep
    /\ Len(GiftPairs(last')) = 1
    /\ Truthy(last'.data.user_id)
    /\ HasNode(nodes, "u_" \o OnlyEntry[2])
    /\ Unseen("u_" \o OnlyEntry[1])
    /\ ReceivedWeight(links, "u_" \o OnlyEntry[2]) = 0

ChainOutcome ==
    LET S == "u_" \o OnlyEntry[1]
        R == "u_" \o OnlyEntry[2]
        resolved == last'.data.resolved_users[OnlyEntry[1]]
    IN  /\ HasNode(nodes', S)
        /\ GetNode(nodes', S).label =
              ResolvedLabel(resolved, "U_" \o OnlyEntry[1])
        /\ HasLink(links', S \o "-" \o R)
        /\ GetLink(links', S \o "-" \o R).value = 1
        /\ RoleOf(parsedUsers', S) = "gifter"
        /\ RecordOf(parsedUsers', S).totalGiftsSent = 1
        /\ HasRecord(parsedUsers', R)
        /\ RecordOf(parsedUsers', R).totalGiftsReceived = 1

C21_DiscoveryChain == [][ChainStep => ChainOutcome]_vars

----------------------------------------------------------------------------
(* C22 - layout memory is last-write-wins per node id.  After              *)
(* updateNodePosition(n, p) the stored position of n is p, whatever was    *)
(* stored for n before, and every other node id has the position it had,   *)
(* or none if it had none; after clearNodePositions() no node id has a     *)
(* stored position.                                                        *)

LayoutCall(op) == layoutOp' # layoutOp /\ layoutOp'.op = op

Stored(positions, n) == n \in DOMAIN positions

OthersKept(n) ==
    \A m \in (DOMAIN networkNodePositions \cup DOMAIN networkNodePositions') \ {n} :
        /\ Stored(networkNodePositions, m)
        /\ Stored(networkNodePositions', m)
        /\ networkNodePositions'[m] = networkNodePositions[m]

C22_LastWriteWins ==
    [][/\ LayoutCall("put") =>
              /\ Stored(networkNodePositions', layoutOp'.nodeId)
              /\ networkNodePositions'[layoutOp'.nodeId] = layoutOp'.position
              /\ OthersKept(layoutOp'.nodeId)
       /\ LayoutCall("clear") => DOMAIN networkNodePositions' = {}
      ]_vars

\* u_1 was put last, at the pinned position, while c_a keeps the free one
C22_Witness ==
    /\ layoutOp.op = "put"
    /\ layoutOp.nodeId = "u_1"
    /\ layoutOp.position.fx = "30"
    /\ DOMAIN networkNodePositions = {"u_1", "c_a"}
    /\ networkNodePositions["u_1"] = layoutOp.position
    /\ networkNodePositions["c_a"].fx = Undefined

----------------------------------------------------------------------------
(* C23 - the graph store is additive within a session.  No call of         *)
(* processScanUpdate removes a node or an edge or lowers the weight of an  *)
(* edge: every node id and every edge key of the graph before the call is  *)
(* in the graph after it.                                                  *)

WeightsKept ==
    \A i \in 1..Len(links) :
        HasLink(links', LinkKey(links[i])) =>
            GetLink(links', LinkKey(links[i])).value >= links[i].value

C23_Additive == [][AppliedNow => NodesKept /\ LinksKept /\ WeightsKept]_vars

\* three graph events were applied: two nodes, a membership edge and a gift
\* edge, or a gift edge of weight 2, are in the graph
C23_Witness ==
    /\ applied = MaxEvents
    /\ Len(nodes) >= 2
    /\ \E i \in 1..Len(links) : IsGiftLink(links[i])
    /\ \/ \E i \in 1..Len(links) : IsMembership(links[i])
       \/ \E i \in 1..Len(links) : links[i].value >= 2

----------------------------------------------------------------------------
(* C24 - lazy creation and referential integrity.  Both endpoints of every *)
(* edge are nodes of the graph.  A user_gifts event creates the sender     *)
(* node and the edge but never a node for the recipient user_id: a gift    *)
(* for a recipient that has not been observed leaves an edge whose target  *)
(* is not a node, and the link pass skips that edge.                       *)

C24_EndpointsExist ==
    \A i \in 1..Len(links) :
        HasNode(nodes, links[i].source) /\ HasNode(nodes, links[i].target)

----------------------------------------------------------------------------
(* C25 - first writer wins for provenance.  Once the node of an account    *)
(* has discoveredFrom set, every later call of processScanUpdate, whether  *)
(* its event carries another discovered_from, the same one or none, leaves *)
(* the field as it is, on the node and on the account's record.            *)

ProvenanceFixed(id) ==
    /\ HasNode(nodes', id)
    /\ GetNode(nodes', id).discoveredFrom = GetNode(nodes, id).discoveredFrom
    /\ HasRecord(parsedUsers', id) =>
           RecordOf(parsedUsers', id).discoveredFrom
               = GetNode(nodes, id).discoveredFrom

C25_FirstWriterWins ==
    [][AppliedNow =>
          \A i \in 1..Len(nodes) :
              Truthy(nodes[i].discoveredFrom) => ProvenanceFixed(nodes[i].id)]_vars

\* the latest event names another discovered_from than the one the node keeps
C25_Witness ==
    /\ IsAccountEvent(last)
    /\ Truthy(last.data.discovered_from)
    /\ HasProvenance(nodes, "u_" \o last.data.id)
    /\ GetNode(nodes, "u_" \o last.data.id).discoveredFrom
           # last.data.discovered_from

----------------------------------------------------------------------------
(* C26 - label quality never decreases.  With the ranks placeholder        *)
(* (U_<id>) < first name < @username, no call of processScanUpdate lowers  *)
(* the rank of the label of an account node or of its record.              *)

LabelRank(label) ==
    IF StartsWith(label, "@") THEN 3
    ELSE IF StartsWith(label, "U_") THEN 1
    ELSE 2

C26_LabelNeverDowngraded ==
    [][AppliedNow =>
          \A i \in 1..Len(nodes) :
              IsAccountId(nodes[i].id) =>
                  /\ HasNode(nodes', nodes[i].id)
                  /\ LabelRank(GetNode(nodes', nodes[i].id).label)
                         >= LabelRank(nodes[i].label)
                  /\ HasRecord(parsedUsers', nodes[i].id) =>
                         LabelRank(RecordOf(parsedUsers', nodes[i].id).label)
                             >= LabelRank(nodes[i].label)]_vars

\* the latest event resolves a sender by first name only, or observes an
\* account without username, and the account keeps its username label
C26_Witness ==
    \E id \in Ids :
        /\ HasNode(nodes, "u_" \o id)
        /\ LabelRank(GetNode(nodes, "u_" \o id).label) = 3
        /\ \/ /\ IsGiftEvent(last)
              /\ \E i \in 1..Len(GiftPairs(last)) : GiftPairs(last)[i][1] = id
              /\ last.data.resolved_users[id] # NotResolved
              /\ ~Truthy(last.data.resolved_users[id].username)
           \/ /\ IsAccountEvent(last)
              /\ last.data.id = id
              /\ ~Truthy(last.data.username)
              /\ Truthy(last.data.first_name)

----------------------------------------------------------------------------
(* C27 - the label reflects the best identity seen.  When an event         *)
(* supplies a username for an account, the account's label becomes         *)
(* '@username'; when an event supplies only a first name for an account    *)
(* whose label is still the placeholder, the label becomes the first name. *)
(* An account event changes the label of an existing node only if it       *)
(* carries a username, and a gift event only if the label is a             *)
(* placeholder.                                                            *)

\* the identity the event of this step supplies for account id, if any
SuppliedFor(id) ==
    IF IsAccountEvent(last') /\ last'.data.id = id
    THEN [username |-> last'.data.username, first_name |-> last'.data.first_name]
    ELSE IF IsGiftEvent(last')
            /\ (\E i \in 1..Len(GiftPairs(last')) : GiftPairs(last')[i][1] = id)
            /\ last'.data.resolved_users[id] # NotResolved
    THEN last'.data.resolved_users[id]
    ELSE [username |-> Undefined, first_name |-> Undefined]

LabelAfter(id) == GetNode(nodes', "u_" \o id).label

C27_LabelBestSeen ==
    [][AppliedNow =>
          \A id \in Ids :
              /\ Truthy(SuppliedFor(id).username) =>
                     LabelAfter(id) = "@" \o SuppliedFor(id).username
              /\ (/\ ~Truthy(SuppliedFor(id).username)
                  /\ Truthy(SuppliedFor(id).first_name)
                  /\ HasNode(nodes, "u_" \o id)
                  /\ LabelRank(GetNode(nodes, "u_" \o id).label) = 1) =>
                     LabelAfter(id) = SuppliedFor(id).first_name]_vars

----------------------------------------------------------------------------
(* C28 - the role never regresses.  An account projected 'target' is       *)
(* projected 'target' after every later call of processScanUpdate, and an  *)
(* account projected 'gifter' is not projected 'discovered' after it.  An  *)
(* account event with type 'channel' takes the record of its account away, *)
(* and with it the 'gifter' role of the accounts whose only gifts went to  *)
(* that account.                                                           *)

C28_RoleNeverRegresses ==
    [][AppliedNow =>
          \A i \in 1..Len(parsedUsers) :
              /\ parsedUsers[i].sourceType = "target" =>
                     RoleOf(parsedUsers', parsedUsers[i].id) = "target"
              /\ parsedUsers[i].sourceType = "gifter" =>
                     RoleOf(parsedUsers', parsedUsers[i].id) # "discovered"]_vars

----------------------------------------------------------------------------
(* C29 - view consistency.  In every state of the store, after startScan,  *)
(* stopScan and any applied events, parsedUsers is the projection of the   *)
(* nodes and edges that graphData holds.                                   *)

C29_ViewConsistent == parsedUsers = Project(nodes, links)

\* a graph with a gift edge between two accounts that have records, and a
\* scan that has been stopped
C29_Witness ==
    /\ ~isScanning
    /\ \E i \in 1..Len(parsedUsers) : parsedUsers[i].totalGiftsSent >= 1
    /\ \E i \in 1..Len(links) : IsMembership(links[i])

----------------------------------------------------------------------------
(* C30 - gift entries without a sender id are ignored.  A user_gifts event *)
(* in which no entry has a sender_id leaves the nodes and the edges, with  *)
(* their weights, as they were; in any user_gifts event the only nodes     *)
(* added are senders of entries that have a sender_id, and an edge is      *)
(* added or incremented by exactly the number of such entries for its      *)
(* sender and the event's recipient.                                       *)

\* the number of entries of the event of this step that have a sender_id and
\* stand for the edge with this key
EntriesFor(key) ==
    LET ps == GiftPairs(last')
    IN  Cardinality({i \in 1..Len(ps) :
                        "u_" \o ps[i][1] \o "-" \o "u_" \o ps[i][2] = key})

ValueBefore(key) == IF HasLink(links, key) THEN GetLink(links, key).value ELSE 0

C30_SenderlessIgnored ==
    [][GiftStep =>
          /\ GiftPairs(last') = <<>> => nodes' = nodes /\ links' = links
          /\ \A i \in 1..Len(nodes') :
                 \/ HasNode(nodes, nodes'[i].id)
                 \/ \E j \in 1..Len(GiftPairs(last')) :
                        nodes'[i].id = "u_" \o GiftPairs(last')[j][1]
          /\ \A i \in 1..Len(links') :
                 links'[i].value = ValueBefore(LinkKey(links'[i]))
                                       + EntriesFor(LinkKey(links'[i]))]_vars

\* a mixed event was applied to a graph that had nodes: its entry with a
\* sender made an edge, its entry without one made nothing
C30_Witness ==
    /\ IsGiftEvent(last)
    /\ Len(last.data.gifts) = 2
    /\ Len(GiftPairs(last)) = 1
    /\ applied >= 2
    /\ Len(links) = 1
    /\ links[1].value = 1
    /\ Len(nodes) >= 2

----------------------------------------------------------------------------
(* The store fed with accounts and channels whose raw ids and handles      *)
(* coincide: account 1 is a member of the channel with handle "1".         *)

KindUpdates ==
    {UserFound("1", "alice", Undefined, "bio", Undefined, Undefined),
     UserFound("2", Undefined, Undefined, Undefined, Undefined, "1"),
     UserDetail("1", Undefined, <<"1">>),
     UserDetail("2", "1", <<"1", "2">>),
     UserDetail("2", Undefined, <<"2">>),
     UserGifts("1", <<Gift("2")>>,
               [s \in Ids |-> [username |-> "bob", first_name |-> "Bo"]]),
     UserGifts("2", <<Gift("1")>>, Unresolved)}

NextKinds ==
    \/ \E update \in KindUpdates : ProcessScanUpdate(update)
    \/ CallStartScan
    \/ CallStopScan

SpecKinds == Init /\ [][NextKinds]_vars

----------------------------------------------------------------------------
(* C31 - identifiers are namespaced by kind.  The account with raw id X    *)
(* and the channel with handle X are the two nodes u_X and c_X, the        *)
(* channel node with group 'channel' and the label @X.  user_found and     *)
(* user_gifts events leave every channel node as it was and create none.   *)
(* The channel links of a user_detail event change no account node: the    *)
(* account nodes after the event are those its account fields alone        *)
(* produce (the event's own node is created or merged as for user_found,   *)
(* which can set its isTarget flag; every other account node is as it      *)
(* was).                                                                   *)

AccountNodes(ns) == SelectSeq(ns, LAMBDA n : IsAccountId(n.id))
ChannelNodes(ns) == SelectSeq(ns, LAMBDA n : IsChannelId(n.id))

\* every applied channel link has its account node and its channel node
KindsApart(ns, seen) ==
    \A p \in seen :
        /\ HasNode(ns, p[1])
        /\ HasNode(ns, "c_" \o p[2])
        /\ GetNode(ns, "c_" \o p[2]).group = "channel"
        /\ GetNode(ns, "c_" \o p[2]).label = "@" \o p[2]

\* every account node that was in the graph is in it unchanged
AccountNodesKept ==
    \A i \in 1..Len(nodes) :
        IsAccountId(nodes[i].id) =>
            HasNode(nodes', nodes[i].id) /\ GetNode(nodes', nodes[i].id) = nodes[i]

\* the account nodes are those the account fields of the event produce
AccountNodesAsObserved ==
    AccountNodes(nodes') =
        AccountNodes(ApplyUser([nodes |-> nodes, links |-> links],
                               "user_found", last'.data).nodes)

HasChannelLinks(u) == u.type = "user_detail" /\ u.data.channel_links # <<>>

\* as claimed: a channel-links event leaves every account node as it was
C31_NamespacedByKind_Original ==
    [][AppliedNow =>
          /\ KindsApart(nodes', linksSeen')
          /\ ~HasChannelLinks(last') => ChannelNodes(nodes') = ChannelNodes(nodes)
          /\ HasChannelLinks(last') => AccountNodesKept
      ]_vars

C31_NamespacedByKind ==
    [][AppliedNow =>
          /\ KindsApart(nodes', linksSeen')
          /\ ~HasChannelLinks(last') => ChannelNodes(nodes') = ChannelNodes(nodes)
          /\ HasChannelLinks(last') => AccountNodesAsObserved
          /\ HasChannelLinks(last') =>
                \A i \in 1..Len(nodes) :
                    IsAccountId(nodes[i].id) /\ nodes[i].id # StepUid =>
                        GetNode(nodes', nodes[i].id) = nodes[i]
      ]_vars

\* account 1 (@alice) is a member of the channel with handle "1": u_1 and
\* c_1 are both nodes, and the channel links left the label and bio of u_1
C31_Witness ==
    /\ HasChannelLinks(last)
    /\ <<"u_1", "1">> \in linksSeen
    /\ HasNode(nodes, "u_1") /\ HasNode(nodes, "c_1")
    /\ GetNode(nodes, "u_1").label = "@alice"
    /\ GetNode(nodes, "u_1").title = "bio"
    /\ GetNode(nodes, "c_1").label = "@1"

----------------------------------------------------------------------------
(* C32 - channel list order.  The channel list of every account record     *)
(* holds the label of each channel the account has a membership edge to,   *)
(* once each, in the order in which the edges were created: the edges of   *)
(* the graph keep their positions, the new edges of an event follow them   *)
(* in the order of the event's list, and the list a record had before a    *)
(* call of processScanUpdate is a prefix of the list it has after it.      *)

IsPrefix(a, b) == Len(a) <= Len(b) /\ SubSeq(b, 1, Len(a)) = a

\* the labels of the channels of the membership edges of id, in edge order
ChannelLabels(ns, ls, id) ==
    LET ms == SelectSeq(ls, LAMBDA l : IsMembership(l) /\ l.source = id)
    IN  [k \in 1..Len(ms) |-> GetNode(ns, ms[k].target).label]

\* the handles of a list that are not in have, each once, in list order
RECURSIVE FirstOccurrences(_, _)
FirstOccurrences(cs, have) ==
    IF cs = <<>> THEN <<>>
    ELSE IF Head(cs) \in have THEN FirstOccurrences(Tail(cs), have)
    ELSE <<Head(cs)>> \o FirstOccurrences(Tail(cs), have \cup {Head(cs)})

\* the edges keep their positions; the new ones are the event's new memberships
EdgesInCreationOrder ==
    /\ Len(links) <= Len(links')
    /\ \A i \in 1..Len(links) : LinkKey(links'[i]) = LinkKey(links[i])
    /\ HasChannelLinks(last') =>
          LET had == {h \in Handles : HasLink(links, StepUid \o "-c_" \o h)}
              new == FirstOccurrences(last'.data.channel_links, had)
          IN  /\ Len(links') = Len(links) + Len(new)
              /\ \A k \in 1..Len(new) :
                    LinkKey(links'[Len(links) + k]) = StepUid \o "-c_" \o new[k]

C32_ChannelListOrder ==
    [][AppliedNow /\ last'.type # "log" =>
          /\ EdgesInCreationOrder
          /\ \A i \in 1..Len(parsedUsers') :
                LET r == parsedUsers'[i]
                IN  /\ r.channels = ChannelLabels(nodes', links', r.id)
                    /\ HasRecord(parsedUsers, r.id) =>
                          IsPrefix(RecordOf(parsedUsers, r.id).channels, r.channels)
      ]_vars

\* account 1 joined b, then a; a later event listing a before b left the
\* list in the order of creation
C32_Witness ==
    /\ last = UserDetail("1", Undefined, <<"a", "b">>)
    /\ HasRecord(parsedUsers, "u_1")
    /\ RecordOf(parsedUsers, "u_1").channels = <<"@b", "@a">>

----------------------------------------------------------------------------
(* C33 - layout memory is independent of the graph store lifecycle.  A     *)
(* step of startScan, stopScan or processScanUpdate (one that changes      *)
(* isScanning, the graph, the view or the session's history) leaves        *)
(* networkNodePositions as it was; the stored positions change only in a   *)
(* call of updateNodePosition or clearNodePositions.                       *)

LifecycleStep ==
    \/ isScanning' # isScanning
    \/ store' # store
    \/ hist' # hist

C33_LayoutOutlivesSessions ==
    [][/\ LifecycleStep => networkNodePositions' = networkNodePositions
       /\ networkNodePositions' # networkNodePositions =>
             LayoutCall("put") \/ LayoutCall("clear")
      ]_vars

\* a session has run and stopped, its graph holds u_1, and positions are
\* stored for u_1 and for a node the graph does not hold
C33_Witness ==
    /\ ~isScanning
    /\ applied = MaxStreamEvents
    /\ HasNode(nodes, "u_1")
    /\ DOMAIN networkNodePositions = {"u_1", "c_a"}

----------------------------------------------------------------------------
(* The store fed with account events whose bio is absent, null, empty or   *)
(* one of two texts, between other events for the same accounts.           *)

BioValues == {Undefined, Null, "", "old", "new"}

BioUpdates ==
    {UserFound("1", Undefined, Undefined, bio, Undefined, Undefined) :
        bio \in BioValues}
    \cup {UserFound("2", "alice", Undefined, "old", Undefined, "1"),
          UserFound("2", Undefined, "Al", Undefined, Undefined, Undefined),
          UserDetail("1", Undefined, <<"a">>),
          UserGifts("2", <<Gift("1")>>,
                    [s \in Ids |-> [username |-> "bob", first_name |-> "Bo"]])}

NextBio ==
    \/ \E update \in BioUpdates : ProcessScanUpdate(update)
    \/ CallStartScan
    \/ CallStopScan

SpecBio == Init /\ [][NextBio]_vars

----------------------------------------------------------------------------
(* C34 - the bio is only upgraded.  In a call of processScanUpdate the bio *)
(* (title) of an account node becomes the event's bio if the event is a    *)
(* user_found or user_detail for that account with a non-empty bio, and    *)
(* stays as it was otherwise: an absent, null or empty bio and every other *)
(* event leave it unchanged.  The record's bio is the node's.              *)

CarriesBio(u) ==
    /\ IsAccountEvent(u)
    /\ u.data.bio \notin {Undefined, Null, ""}

C34_BioOnlyUpgraded ==
    [][AppliedNow =>
          /\ \A i \in 1..Len(nodes) :
                LET id == nodes[i].id
                IN  IsAccountId(id) =>
                       /\ HasNode(nodes', id)
                       /\ GetNode(nodes', id).title =
                             IF CarriesBio(last') /\ StepUid = id
                             THEN last'.data.bio
                             ELSE nodes[i].title
          /\ last'.type # "log" =>
                \A i \in 1..Len(parsedUsers') :
                    parsedUsers'[i].bio = GetNode(nodes', parsedUsers'[i].id).title
      ]_vars

\* the bio of account 1 is "new"; the last of three events, one with an
\* empty bio for account 1, left it
C34_Witness ==
    /\ applied = MaxEvents
    /\ last = UserFound("1", Undefined, Undefined, "", Undefined, Undefined)
    /\ HasRecord(parsedUsers, "u_1")
    /\ RecordOf(parsedUsers, "u_1").bio = "new"
    /\ GetNode(nodes, "u_1").title = "new"

----------------------------------------------------------------------------
(* C35 - at most one scan stream is open at any time.  In every reachable  *)
(* state at most one WebSocket is open (able to deliver messages to        *)
(* processScanUpdate).                                                     *)

OpenStreams == {w \in Slots : IsOpen(w)}

C35_OneOpenStream == Cardinality(OpenStreams) <= 1

----------------------------------------------------------------------------
(* C36 - the scanning flag tracks the open stream.  Whenever a message of  *)
(* an open stream is applied, isScanning is true; and the timer callback   *)
(* of a closed stream that runs while another stream is open neither sets  *)
(* isScanning to false nor opens a further stream.                         *)

AppliedFromStream == AppliedNow /\ from' \in Slots

C36_FlagTracksStream ==
    [][/\ AppliedFromStream => isScanning
       /\ SettleStep /\ OpenStreams # {} =>
             isScanning' /\ \A w \in Slots : ~Opened(w)
      ]_vars

----------------------------------------------------------------------------
(* The Scanner working through one enqueued list: the list is enqueued     *)
(* once, Stop and the manual start are not used, tabs may be switched.     *)

DrainLists == QueueInputs \cup {<<"B", "A", "C">>}

NothingEnqueued == scanQueue = <<>> /\ started = {}

EnqueueOnce(q) ==
    /\ NothingEnqueued
    /\ Enqueue(q)

NextDrain ==
    \/ \E q \in DrainLists : EnqueueOnce(q)
    \/ \E tab \in Tabs : SetActiveTab(tab)
    \/ Autostart
    \/ \E w \in Slots : OnMessageComplete(w)
    \/ \E w \in Slots : OnMessageError(w)
    \/ \E w \in Slots, update \in StreamUpdates : OnMessageUpdate(w, update)
    \/ \E w \in Slots : OnClose(w)
    \/ \E w \in Slots : SettleTimer(w)

SpecDrain == Init /\ [][NextDrain]_vars

----------------------------------------------------------------------------
(* C37 - queue order and single start.  With one list enqueued, no stop    *)
(* and no manual start: a stream is opened only for the head of the queue, *)
(* which is removed from the queue in the same step, while no other stream *)
(* is open or closing, and for a target that has not been started before;  *)
(* the queue changes only by being enqueued or by losing the head that is  *)
(* started.                                                                *)

Enqueued == scanQueue = <<>> /\ scanQueue' # <<>> /\ started' = {}

StartsHead(w) ==
    /\ scanQueue # <<>>
    /\ sockets'[w].chatId = Head(scanQueue)
    /\ scanQueue' = Tail(scanQueue)
    /\ sockets'[w].chatId \notin Elems(scanQueue')

C37_QueueOrder ==
    [][/\ \A w \in Slots :
             Opened(w) =>
                 /\ StartsHead(w)
                 /\ sockets'[w].chatId \notin started
                 /\ started' = started \cup {sockets'[w].chatId}
                 /\ \A v \in Slots \ {w} : sockets'[v].state \notin {"open", "closing"}
       /\ scanQueue' # scanQueue =>
             \/ Enqueued
             \/ \E w \in Slots : Opened(w)
      ]_vars

\* of the list B, A, C the targets B and A have been started, in that
\* order; A's stream is open and C is queued
C37_Witness ==
    /\ started = {"A", "B"}
    /\ scanQueue = <<"C">>
    /\ scanTargetChatId = "A"
    /\ \E w \in Slots : IsOpen(w) /\ sockets[w].chatId = "A"

----------------------------------------------------------------------------
(* The same with the scheduling of the browser and a server that ends      *)
(* every stream: an open or closing socket gets its onclose.               *)

StreamCloses == \E w \in Slots : OnClose(w)

DrainFairness ==
    /\ WF_vars(StreamCloses)
    /\ WF_vars(TimerFires)
    /\ WF_vars(Autostart)

SpecDrainFair == Init /\ [][NextDrain]_vars /\ DrainFairness

----------------------------------------------------------------------------
(* C38 - the queue drains.  With one list enqueued, no stop and every      *)
(* stream closing eventually: from the moment the list is enqueued the     *)
(* controller eventually is idle (isScanning false, no socket open,        *)
(* closing or settling) with an empty queue, every target of the list      *)
(* having been started, and it stays so.                                   *)

Drained ==
    /\ ~isScanning
    /\ scanQueue = <<>>
    /\ \A w \in Slots : IsFree(sockets, w)

JustEnqueued(q) == scanQueue = q /\ started = {}

C38_QueueDrains ==
    \A q \in DrainLists :
        JustEnqueued(q) ~> [](Drained /\ started = Elems(q))

\* the list B, A, C has been worked through and the controller is idle
C38_Witness ==
    /\ Drained
    /\ started = {"A", "B", "C"}
    /\ scanTargetChatId = "C"

----------------------------------------------------------------------------
(* C39 - gift conservation in the view.  The totalGiftsSent of all records *)
(* add up to the totalGiftsReceived of all records, and the giftsSentTo    *)
(* list of S has an entry for R with count w exactly when the              *)
(* giftsReceivedFrom list of R has an entry for S with count w.            *)

RECURSIVE SumOf(_, _)
SumOf(pu, field) ==
    IF pu = <<>> THEN 0 ELSE Head(pu)[field] + SumOf(Tail(pu), field)

\* the <<account, count>> pairs of a list of gift entries
GiftEntries(list) == {<<list[k].userId, list[k].count>> : k \in 1..Len(list)}

\* the gifts <<sender, recipient, count>> as the senders' and as the
\* recipients' lists have them
SentInView(pu) ==
    UNION {{<<pu[i].id, e[1], e[2]>> : e \in GiftEntries(pu[i].giftsSentTo)} :
              i \in 1..Len(pu)}
ReceivedInView(pu) ==
    UNION {{<<e[1], pu[i].id, e[2]>> : e \in GiftEntries(pu[i].giftsReceivedFrom)} :
              i \in 1..Len(pu)}

C39_GiftConservation ==
    /\ SumOf(parsedUsers, "totalGiftsSent") = SumOf(parsedUsers, "totalGiftsReceived")
    /\ SentInView(parsedUsers) = ReceivedInView(parsedUsers)
    /\ \A g \in SentInView(parsedUsers) :
          HasRecord(parsedUsers, g[1]) /\ HasRecord(parsedUsers, g[2])

\* account 1 sent two gifts to account 2, which has a record: 1's sent list
\* and 2's received list have the entry with count 2
C39_Witness ==
    /\ HasRecord(parsedUsers, "u_1") /\ HasRecord(parsedUsers, "u_2")
    /\ RecordOf(parsedUsers, "u_1").totalGiftsSent = 2
    /\ RecordOf(parsedUsers, "u_2").totalGiftsReceived = 2
    /\ <<"u_1", "u_2", 2>> \in SentInView(parsedUsers)

====
